---------------------------- MODULE Spec2Model ----------------------------
(***************************************************************************)
(* A model of rxn_network's BalancedPathway (pathways/balanced.py) and     *)
(* GibbsEntrySet (entries/entry_set.py).                                   *)
(*                                                                         *)
(* Three independent specifications share the variables:                   *)
(*   SpecBalance  BalancedPathway.balance                                  *)
(*   SpecInter    BalancedPathway.contains_interdependent_rxns             *)
(*   SpecEntries  GibbsEntrySet: get_subset_in_chemsys, filter_by_stability*)
(*                                                                         *)
(* Real numbers are exact rationals <<numerator, denominator>> with a      *)
(* positive denominator; the inputs are small integers, so numpy's         *)
(* rounding (about 1e-16) is far below every tolerance compared against.   *)
(***************************************************************************)
EXTENDS Integers, Sequences, FiniteSets, TLC

VARIABLES
    bal,        \* BalancedPathway.balance: the last call (inputs and outcome)
    inter,      \* contains_interdependent_rxns: the last call
    entries,    \* GibbsEntrySet.entries of the collection under test
    call,       \* GibbsEntrySet: the last completed call (inputs and outcome)
    fbs,        \* filter_by_stability: the frame of the running call
    origin,     \* how the collection under test was obtained
    data        \* data["idx"] of each member of the collection

vars == <<bal, inter, entries, call, fbs, origin, data>>

Abs(n) == IF n < 0 THEN -n ELSE n

\* Python's Optional: None is <<>>, a value v is <<v>>.
None == <<>>

Some(v) == <<v>>

(***************************************************************************)
(*                      BalancedPathway.balance                            *)
(***************************************************************************)

\* Bound on a pathway's coefficient for one composition.
MaxCoeff == 1

\* Bound on the net reaction's coefficient for one composition.
MaxNet == 2

\* self.compositions: the columns of the composition matrix.
BalComps == {"x", "y", "z"}

\* The candidate pathways (rows of the composition matrix): two of them.
PathwayIdx == {1, 2}

\* A coefficient vector of a Reaction: negative for reactants, positive for
\* products, 0 for absent compositions; a reaction has both sides.
IsRxnVector(r) == (\E c \in BalComps : r[c] < 0) /\ (\E c \in BalComps : r[c] > 0)

PathwayVectors == {r \in [BalComps -> -MaxCoeff..MaxCoeff] : IsRxnVector(r)}

NetVectors == {r \in [BalComps -> -MaxNet..MaxNet] : IsRxnVector(r)}

\* tol, default 1e-6 (line 55), and one coarse value a caller may pass.
DefaultTol == <<1, 1000000>>

Tols == {DefaultTol, <<1, 2>>}

\* np.allclose's defaults, the tolerances the call at line 68 runs with.
AllcloseAtolDen == 100000000

AllcloseRtolDen == 100000

Dot(u, v) == u["x"] * v["x"] + u["y"] * v["y"] + u["z"] * v["z"]

\* coefficients = np.linalg.pinv(comp_matrix).T @ net_coeffs, the minimum-norm
\* least-squares solution x of comp_matrix.T @ x = net_coeffs, for the two-row
\* matrix m. With G = m m^T: x = G^-1 (m v) when the rows are independent,
\* and x = (m v) / ||m||_F^2 when they are proportional (rank 1).
\* The result is <<n1, n2, d>>: the multiplicities n1/d and n2/d, d > 0.
pinv_solve(m, v) ==
    LET a == Dot(m[1], m[1])
        b == Dot(m[1], m[2])
        c == Dot(m[2], m[2])
        w1 == Dot(m[1], v)
        w2 == Dot(m[2], v)
        det == a * c - b * b
    IN  IF det # 0
        THEN <<c * w1 - b * w2, a * w2 - b * w1, det>>
        ELSE <<w1, w2, a + c>>

\* (comp_matrix.T @ x)[c] - net_coeffs[c], times the denominator of x.
Residual(m, v, x, c) == m[1][c] * x[1] + m[2][c] * x[2] - v[c] * x[3]

\* (coefficients < tol).any()  (line 66)
any_below_tol(x, tol) ==
    \E i \in PathwayIdx : x[i] * tol[2] < tol[1] * x[3]

\* np.allclose(comp_matrix.T @ multiplicities, net_coeffs)  (line 68):
\* |a - b| <= atol + rtol * |b| for every component, i.e.
\* AtolDen * |residual| <= d * (1 + (AtolDen / RtolDen) * |v[c]|).
allclose(m, v, x) ==
    \A c \in BalComps :
        Abs(Residual(m, v, x, c))
            <= (x[3] * (1 + (AllcloseAtolDen \div AllcloseRtolDen) * Abs(v[c])))
                   \div AllcloseAtolDen

\* Lines 64-69: the local is_balanced.
is_balanced(m, v, x, tol) ==
    IF any_below_tol(x, tol) THEN FALSE
    ELSE IF allclose(m, v, x) THEN TRUE
    ELSE FALSE

\* BalancedPathway.__init__ (lines 34-40): the balanced argument is optional.
BalancedPathway(reactions, coefficients, costs, balanced) ==
    [reactions |-> reactions, coefficients |-> coefficients, costs |-> costs,
     balanced |-> IF balanced # None THEN balanced[1] ELSE FALSE]

\* The body of balance (lines 61-71) once its names are resolved: the object
\* is built by cls(reactions, coefficients, costs), without is_balanced.
balance_body(m, v, tol) ==
    LET coefficients == pinv_solve(m, v)
        flag == is_balanced(m, v, coefficients, tol)
    IN  [raised |-> "none", is_balanced |-> flag,
         ret |-> Some(BalancedPathway(m, coefficients, None, None))]

\* balance (lines 51-71). The names comp_matrix, net_coeffs, multiplicities,
\* reactions and costs are free in the body: neither parameters nor locals,
\* and the module binds none of them, so line 61 raises NameError. `bound`
\* tells whether the caller's module namespace supplies them (the matrix and
\* vector built as comp_matrix and get_coeff_vector_for_rxn build them).
balance(m, v, tol, bound) ==
    IF bound THEN balance_body(m, v, tol)
    ELSE [raised |-> "NameError", is_balanced |-> FALSE, ret |-> None]

BalIdle == [pc |-> "idle"]

Balance ==
    /\ bal.pc = "idle"
    /\ \E m \in [PathwayIdx -> PathwayVectors], v \in NetVectors,
          tol \in Tols, bound \in BOOLEAN :
          bal' = [pc |-> "done", m |-> m, v |-> v, tol |-> tol, bound |-> bound,
                  out |-> balance(m, v, tol, bound)]
    /\ UNCHANGED <<inter, entries, call, fbs, origin, data>>

\* The other components at rest.
InterIdle == [pc |-> "idle"]

CallNone == [op |-> "none"]

FbsIdle == [pc |-> "idle"]

\* An entry whose data has no "idx" key.
NoIdx == -1

\* The data["idx"] of the members: an entry keeps what it has, an entry that
\* joins the collection has none.
data_of_members(d, members) ==
    [e \in members |-> IF e \in DOMAIN d THEN d[e] ELSE NoIdx]

\* The collection under test is the one handed to the constructor.
OriginGiven == [op |-> "given"]

InitBalance ==
    /\ bal = BalIdle
    /\ inter = InterIdle
    /\ entries = {}
    /\ call = CallNone
    /\ fbs = FbsIdle
    /\ origin = OriginGiven
    /\ data = data_of_members(<< >>, entries)

NextBalance == Balance

SpecBalance == InitBalance /\ [][NextBalance]_vars

\* The multiplicities the call's inputs determine.
BalMultiplicities == pinv_solve(bal.m, bal.v)

\* Some multiplicity is negative beyond -tol.
NegativeBeyondTol(x, tol) == \E i \in PathwayIdx : x[i] * tol[2] < -(tol[1] * x[3])

\* The weighted sum of the pathways' vectors equals the net vector within tol.
ReconstructsWithinTol(m, v, x, tol) ==
    \A c \in BalComps : Abs(Residual(m, v, x, c)) * tol[2] <= tol[1] * x[3]

\* C1 (as claimed): whenever every computed multiplicity is >= -tol and the
\* multiplicity-weighted sum of the pathways' coefficient vectors equals the net
\* reaction's vector within tol, balance returns a BalancedPathway with
\* balanced = True that carries those multiplicities as its coefficients.
C1_BalancedWhenReconstructed ==
    (/\ bal.pc = "done"
     /\ ~NegativeBeyondTol(BalMultiplicities, bal.tol)
     /\ ReconstructsWithinTol(bal.m, bal.v, BalMultiplicities, bal.tol))
    => (/\ bal.out.ret # None
        /\ bal.out.ret[1].balanced = TRUE
        /\ bal.out.ret[1].coefficients = BalMultiplicities)

\* C2 (as claimed): a multiplicity below -tol gives balanced = False on the
\* returned object, while multiplicities in [-tol, 0] do not by themselves make
\* the verdict unbalanced: with none below -tol and the reconstruction accepted
\* by the code's own closeness test, the verdict computed is "balanced".
C2_OnlyBeyondTolUnbalances ==
    (bal.pc = "done" /\ bal.out.raised = "none")
    => (/\ NegativeBeyondTol(BalMultiplicities, bal.tol)
            => bal.out.ret[1].balanced = FALSE
        /\ (/\ ~NegativeBeyondTol(BalMultiplicities, bal.tol)
            /\ \E i \in PathwayIdx : BalMultiplicities[i] <= 0
            /\ allclose(bal.m, bal.v, BalMultiplicities))
            => bal.out.is_balanced = TRUE)

\* No BalancedPathway that balance returns has balanced = True: the flag the
\* body computes never reaches the constructor (line 71).
BalanceNeverReportsBalanced ==
    (bal.pc = "done" /\ bal.out.ret # None) => bal.out.ret[1].balanced = FALSE

(***************************************************************************)
(*               BalancedPathway.contains_interdependent_rxns              *)
(***************************************************************************)

\* Bound on the number of distinct reactions of a pathway.
MaxRxns == 3

\* The compositions reactions are written over, each with its atom counts of
\* the two elements a and b.
CompVec ==
    [A |-> <<1, 0>>, B |-> <<0, 1>>, AB |-> <<1, 1>>, A2B |-> <<2, 1>>, AB2 |-> <<1, 2>>]

InterComps == DOMAIN CompVec

\* c1's fraction of element b is below c2's.
FracLess(c1, c2) ==
    CompVec[c1][2] * (CompVec[c2][1] + CompVec[c2][2])
        < CompVec[c2][2] * (CompVec[c1][1] + CompVec[c1][2])

\* The members of a non-empty side with the least and the greatest b-fraction.
Lo(side) == CHOOSE c \in side : \A d \in side : ~FracLess(d, c)

Hi(side) == CHOOSE c \in side : \A d \in side : ~FracLess(c, d)

\* Positive coefficients exist that balance reactants against products element
\* by element. Over two elements the positive combinations of a side attain
\* exactly the b-fractions strictly between its extremes (or its one fraction,
\* when all its members share it); the sides balance iff they attain a common
\* fraction.
can_balance(reactants, products) ==
    /\ reactants # {}
    /\ products # {}
    /\ LET rPoint == ~FracLess(Lo(reactants), Hi(reactants))
           pPoint == ~FracLess(Lo(products), Hi(products))
       IN  IF rPoint /\ pPoint
           THEN /\ ~FracLess(Lo(reactants), Lo(products))
                /\ ~FracLess(Lo(products), Lo(reactants))
           ELSE IF rPoint
           THEN /\ FracLess(Lo(products), Lo(reactants))
                /\ FracLess(Lo(reactants), Hi(products))
           ELSE IF pPoint
           THEN /\ FracLess(Lo(reactants), Lo(products))
                /\ FracLess(Lo(products), Hi(reactants))
           ELSE /\ FracLess(Lo(reactants), Hi(products))
                /\ FracLess(Lo(products), Hi(reactants))

\* can_balance, tabulated.
BalanceTable ==
    [sides \in (SUBSET InterComps) \X (SUBSET InterComps) |->
        can_balance(sides[1], sides[2])]

mass_balanceable(reactants, products) == BalanceTable[<<reactants, products>>]

Rxn(reactants, products) == [reactants |-> reactants, products |-> products]

\* The reactions pathways are drawn from: a catalytic pair with a balanced net
\* reaction (the first two), a reaction and its reverse, a pair feeding each
\* other whose net reaction does not balance, and reactions that consume or
\* produce their intermediates.
ReactionPool ==
    { Rxn({"A2B", "B"}, {"AB2", "A"}),
      Rxn({"AB2"}, {"B", "AB"}),
      Rxn({"A", "B"}, {"AB"}),
      Rxn({"AB"}, {"A", "B"}),
      Rxn({"A", "AB"}, {"A2B"}),
      Rxn({"A2B"}, {"A", "B"}),
      Rxn({"AB", "B"}, {"AB2"}),
      Rxn({"A", "B"}, {"A2B"}) }

\* A Reaction: its reactants and its products, disjoint and mass-balanced.
\* (get_coeff plays no part in contains_interdependent_rxns.)
Reactions ==
    {r \in ReactionPool :
        /\ r.reactants \cap r.products = {}
        /\ mass_balanceable(r.reactants, r.products)}

\* rxn.compositions
compositions(rxn) == rxn.reactants \cup rxn.products

\* What BasicReaction.balance does when no balance exists: it raises, or it
\* returns a reaction whose balanced flag is False.
FailModes == {"raises", "unbalanced"}

\* BasicReaction.balance(reactants, products)
BasicReaction_balance(reactants, products, mode) ==
    IF mass_balanceable(reactants, products)
    THEN [raised |-> FALSE, balanced |-> TRUE,
          reactants |-> reactants, products |-> products]
    ELSE [raised |-> (mode = "raises"), balanced |-> FALSE,
          reactants |-> reactants, products |-> products]

\* seqs with x put in front of each member.
PrependAll(x, seqs) == [i \in 1..Len(seqs) |-> <<x>> \o seqs[i]]

\* itertools.combinations(s, k): the k-element subsequences of s, in the
\* lexicographic order of their positions.
RECURSIVE combinations(_, _)
combinations(s, k) ==
    IF k = 0 THEN << <<>> >>
    ELSE IF Len(s) < k THEN << >>
    ELSE PrependAll(Head(s), combinations(Tail(s), k - 1))
             \o combinations(Tail(s), k)

\* limited_powerset(iterable, max_size): the combinations of sizes 1..max_size,
\* sizes ascending.
RECURSIVE powerset_from(_, _, _)
powerset_from(s, k, max_size) ==
    IF k > max_size THEN << >>
    ELSE combinations(s, k) \o powerset_from(s, k + 1, max_size)

\* The position tuples limited_powerset draws from an iterable of n items.
PowersetPositions ==
    [n \in 0..MaxRxns |-> powerset_from([i \in 1..n |-> i], 1, n)]

\* limited_powerset(iterable, max_size), called with max_size = len(iterable).
limited_powerset(s, max_size) ==
    LET positions == PowersetPositions[max_size]
    IN  [k \in 1..Len(positions) |->
            [i \in 1..Len(positions[k]) |-> s[positions[k][i]]]]

Range(s) == {s[i] : i \in 1..Len(s)}

\* The orders in which a Python set may be iterated.
IterationOrders(S) ==
    {s \in [1..Cardinality(S) -> S] : \A i, j \in 1..Cardinality(S) : s[i] = s[j] => i = j}

\* Line 107: the single-reaction shortcut.
NoShortcut(num_rxns) == FALSE

single_reaction(num_rxns) == num_rxns = 1

\* Lines 112-114: the combo is passed over.
SkipIfAnyPrecursorReactant(combo, precursors) ==
    \/ \E i \in 1..Len(combo) : combo[i].reactants \cap precursors # {}
    \/ Len(combo) = 1

skip_combo(combo, precursors) ==
    \/ \E i \in 1..Len(combo) : combo[i].reactants \subseteq precursors
    \/ Len(combo) = 1

\* Line 116: the compositions of the reactions outside the combo.
other_comp(combo, rxns) ==
    UNION {compositions(rxn) : rxn \in rxns \ Range(combo)}

\* Lines 121-122
unique_reactants(combo, precursors) ==
    [i \in 1..Len(combo) |-> combo[i].reactants \ precursors]

unique_products(combo, precursors) ==
    [i \in 1..Len(combo) |-> combo[i].products \ precursors]

\* A Composition object compared with a set of compositions: never equal.
composition_eq_set(c, phases) == FALSE

\* Line 130: `overlapping_phases in other_comp`. overlapping_phases is a set,
\* and Python looks it up (as a frozenset) among the members of other_comp,
\* which are Composition objects.
phases_in_other_comp(overlapping_phases, others) ==
    \E c \in others : composition_eq_set(c, overlapping_phases)

\* Lines 124-131: the overlap list.
overlap(combo, rxns, precursors) ==
    LET size == Len(combo)
        ur == unique_reactants(combo, precursors)
        up == unique_products(combo, precursors)
    IN  [i \in 1..size |->
            \E j \in 1..size :
                /\ i # j
                /\ LET overlapping_phases == ur[i] \cap up[j]
                   IN  /\ overlapping_phases # {}
                       /\ ~phases_in_other_comp(overlapping_phases,
                                                other_comp(combo, rxns))]

\* all(overlap)
AllButFirstOverlap(combo, rxns, precursors) ==
    LET flags == overlap(combo, rxns, precursors)
    IN  \A i \in 2..Len(combo) : flags[i]

AnyOverlap(combo, rxns, precursors) ==
    LET flags == overlap(combo, rxns, precursors)
    IN  \E i \in 1..Len(combo) : flags[i]

all_overlap(combo, rxns, precursors) ==
    LET flags == overlap(combo, rxns, precursors)
    IN  \A i \in 1..Len(combo) : flags[i]

\* Lines 111-133: the combo is found interdependent.
InterdependentIgnoringPrecursors(combo, rxns, precursors) ==
    ~skip_combo(combo, {}) /\ all_overlap(combo, rxns, {})

combo_interdependent(combo, rxns, precursors) ==
    ~skip_combo(combo, precursors) /\ all_overlap(combo, rxns, precursors)

\* Lines 136-141: the two sides of the combined reaction, shared species
\* cancelled.
combined_sides(combo) ==
    LET combined_reactants == UNION {combo[i].reactants : i \in 1..Len(combo)}
        combined_products == UNION {combo[i].products : i \in 1..Len(combo)}
        shared == combined_reactants \cap combined_products
    IN  [reactants |-> combined_reactants \ shared,
         products |-> combined_products \ shared]

\* Lines 149-150: a failure of BasicReaction.balance is swallowed.
PropagateBalanceFailure(acc) == [acc EXCEPT !.raised = TRUE]

except_continue(acc) == [acc EXCEPT !.swallowed = @ + 1]

\* Line 147: only a balanced reaction is kept.
KeepAnyReaction(r) == TRUE

keep_reaction(r) == r.balanced

\* Lines 110-150: one pass of the loop body.
KeepFirstFound(acc, combo, rxns, precursors, mode) ==
    LET seen == [acc EXCEPT !.enumerated = @ + 1]
    IN  IF ~combo_interdependent(combo, rxns, precursors) THEN seen
        ELSE LET found == [seen EXCEPT !.interdependent = TRUE]
                 sides == combined_sides(combo)
                 r == BasicReaction_balance(sides.reactants, sides.products, mode)
             IN  IF r.raised THEN except_continue(found)
                 ELSE IF keep_reaction(r) /\ acc.combined_rxn = None
                 THEN [found EXCEPT !.combined_rxn = Some(r)]
                 ELSE found

loop_body(acc, combo, rxns, precursors, mode) ==
    LET seen == [acc EXCEPT !.enumerated = @ + 1]
    IN  IF ~combo_interdependent(combo, rxns, precursors) THEN seen
        ELSE LET found == [seen EXCEPT !.interdependent = TRUE]
                 sides == combined_sides(combo)
                 r == BasicReaction_balance(sides.reactants, sides.products, mode)
             IN  IF r.raised THEN except_continue(found)
                 ELSE IF keep_reaction(r)
                 THEN [found EXCEPT !.combined_rxn = Some(r)]
                 ELSE found

\* Line 110: the loop over the combos, from the k-th on.
RECURSIVE run_loop(_, _, _, _, _, _)
run_loop(acc, combos, k, rxns, precursors, mode) ==
    IF k > Len(combos) \/ acc.raised THEN acc
    ELSE run_loop(loop_body(acc, combos[k], rxns, precursors, mode),
                  combos, k + 1, rxns, precursors, mode)

\* contains_interdependent_rxns (lines 99-152). rxns is set(self.reactions) and
\* order the order in which Python iterates it. The result also counts the
\* combos drawn from limited_powerset and the exceptions swallowed; raised tells
\* whether the call ended in an exception instead of returning.
contains_interdependent_rxns(rxns, precursors, order, mode) ==
    LET start == [raised |-> FALSE, interdependent |-> FALSE,
                  combined_rxn |-> None, enumerated |-> 0, swallowed |-> 0]
        num_rxns == Cardinality(rxns)
    IN  IF single_reaction(num_rxns) THEN start
        ELSE run_loop(start, limited_powerset(order, num_rxns), 1, rxns,
                      precursors, mode)

\* Line 104: rxns = set(self.reactions)
rxns_of(reactions) == Range(reactions)

\* The pathways: at least one reaction.
Pathways == {S \in SUBSET Reactions : Cardinality(S) \in 1..MaxRxns}

\* The call: self.reactions (as the set of line 104) and the precursors.
CallContainsInterdependentRxns ==
    /\ inter.pc = "idle"
    /\ \E rxns \in Pathways, precursors \in SUBSET InterComps :
         inter' = [pc |-> "called", rxns |-> rxns, precursors |-> precursors]
    /\ UNCHANGED <<bal, entries, call, fbs, origin, data>>

\* The body, lines 100-152, run to its return under one iteration order of the
\* set and one behaviour of BasicReaction.balance.
ContainsInterdependentRxns ==
    /\ inter.pc = "called"
    /\ \E order \in IterationOrders(inter.rxns), mode \in FailModes :
         inter' = [pc |-> "done", rxns |-> inter.rxns,
                   precursors |-> inter.precursors,
                   order |-> order, mode |-> mode,
                   out |-> contains_interdependent_rxns(inter.rxns,
                               inter.precursors, order, mode)]
    /\ UNCHANGED <<bal, entries, call, fbs, origin, data>>

InitInter ==
    /\ bal = BalIdle
    /\ inter = InterIdle
    /\ entries = {}
    /\ call = CallNone
    /\ fbs = FbsIdle
    /\ origin = OriginGiven
    /\ data = data_of_members(<< >>, entries)

NextInter == CallContainsInterdependentRxns \/ ContainsInterdependentRxns

SpecInter == InitInter /\ [][NextInter]_vars

\* The outcome of the finished call.
InterDone == inter.pc = "done"

\* The call returned (False, None).
ReturnedFalseNone ==
    /\ ~inter.out.raised
    /\ inter.out.interdependent = FALSE
    /\ inter.out.combined_rxn = None

\* A non-precursor product of r1 is a reactant of r2.
Feeds(r1, r2, precursors) == (r1.products \ precursors) \cap r2.reactants # {}

\* The pathway is two reactions that feed each other.
TwoCrossFeeding ==
    /\ InterDone
    /\ Cardinality(inter.rxns) = 2
    /\ \E r1, r2 \in inter.rxns :
        /\ r1 # r2
        /\ Feeds(r1, r2, inter.precursors)
        /\ Feeds(r2, r1, inter.precursors)

\* The reactants and the products of a set of reactions, without the species
\* found on both sides.
NetReactants(S) == UNION {r.reactants : r \in S} \ UNION {r.products : r \in S}

NetProducts(S) == UNION {r.products : r \in S} \ UNION {r.reactants : r \in S}

\* C4 (as claimed): for a pathway of two reactions A and B where a
\* non-precursor product of A is a reactant of B and a non-precursor product of
\* B is a reactant of A, the call returns interdependent = True together with a
\* non-null combined reaction whose reactants and products are mass-balanced.
C4_CrossFeedingGivesCombined ==
    TwoCrossFeeding
    => (/\ ~inter.out.raised
        /\ inter.out.interdependent = TRUE
        /\ inter.out.combined_rxn # None
        /\ can_balance(inter.out.combined_rxn[1].reactants,
                       inter.out.combined_rxn[1].products))

\* C4 (amended): for such a pathway the call returns interdependent = True; the
\* combined reaction is non-null exactly when the species left after cancelling
\* those on both sides can be mass-balanced, it is then the balanced reaction
\* over them, and it is None otherwise.
C4_CrossFeedingInterdependent ==
    TwoCrossFeeding
    => (/\ ~inter.out.raised
        /\ inter.out.interdependent = TRUE
        /\ inter.out.combined_rxn # None
            <=> can_balance(NetReactants(inter.rxns), NetProducts(inter.rxns))
        /\ inter.out.combined_rxn # None
            => (/\ inter.out.combined_rxn[1].balanced
                /\ inter.out.combined_rxn[1].reactants = NetReactants(inter.rxns)
                /\ inter.out.combined_rxn[1].products = NetProducts(inter.rxns)
                /\ can_balance(inter.out.combined_rxn[1].reactants,
                               inter.out.combined_rxn[1].products)))

\* C4's case, with a combined reaction returned.
C4_Witness == TwoCrossFeeding /\ inter.out.combined_rxn # None

\* Every reaction's reactants are all precursors.
AllFromPrecursors ==
    InterDone /\ \A r \in inter.rxns : r.reactants \subseteq inter.precursors

\* C5: for any pathway in which every reaction's reactants are all precursor
\* compositions the call returns (False, None), for any number of reactions.
C5_PrecursorOnlyNotInterdependent == AllFromPrecursors => ReturnedFalseNone

\* C5's case with the largest pathway, one of whose reactions consumes what
\* another produces.
C5_Witness ==
    /\ AllFromPrecursors
    /\ Cardinality(inter.rxns) = MaxRxns
    /\ \E r1, r2 \in inter.rxns : r1 # r2 /\ r1.products \cap r2.reactants # {}

\* The combos of the run that the code finds interdependent.
QualifyingCombos ==
    LET combos == limited_powerset(inter.order, Cardinality(inter.rxns))
    IN  {combos[k] : k \in {i \in 1..Len(combos) :
            combo_interdependent(combos[i], inter.rxns, inter.precursors)}}

\* Some subset is interdependent and none of those has a combined reaction
\* that balances.
DetectedNoneBalances ==
    /\ InterDone
    /\ Cardinality(inter.rxns) > 1
    /\ QualifyingCombos # {}
    /\ \A combo \in QualifyingCombos :
         ~can_balance(NetReactants(Range(combo)), NetProducts(Range(combo)))

\* C6: when a subset is detected as interdependent but no combined reaction
\* can be balanced for it (balancing raises or yields an unbalanced reaction)
\* and no other subset yields one, the call returns interdependent = True with
\* combined reaction None, and the failure does not reach the caller.
C6_BalanceFailureWithheld ==
    DetectedNoneBalances
    => (/\ ~inter.out.raised
        /\ inter.out.interdependent = TRUE
        /\ inter.out.combined_rxn = None)

\* C6's case, with BasicReaction.balance raising and the exception swallowed.
C6_Witness ==
    /\ DetectedNoneBalances
    /\ inter.mode = "raises"
    /\ inter.out.swallowed > 0

\* C7: a pathway with exactly one reaction returns (False, None) at once, for
\* every precursor set, without enumerating any subset.
C7_SingleReactionShortcut ==
    (InterDone /\ Cardinality(inter.rxns) = 1)
    => (ReturnedFalseNone /\ inter.out.enumerated = 0)

\* C7's case, the reaction needing more than the precursors.
C7_Witness ==
    /\ InterDone
    /\ Cardinality(inter.rxns) = 1
    /\ \E r \in inter.rxns : ~(r.reactants \subseteq inter.precursors)
    /\ inter.precursors # {}

(***************************************************************************)
(*                             GibbsEntrySet                               *)
(***************************************************************************)

\* Bound on the number of entries of the collection.
MaxEntries == 3

\* Bound on the size of an entry's (negative) energy per atom.
MaxEnergy == 2

\* The reduced formulas of the entries, compositions of CompVec.
EntryFormulas == {"A", "B", "AB"}

Energies == -MaxEnergy..0

\* Entries are objects: two with the same composition and energy are told apart
\* by a tag.
Tags == {1, 2}

\* Element symbols; "c" is in no entry.
Symbols == {"a", "b", "c"}

\* [sp.symbol for sp in e.composition.keys()]
elements(e) ==
    {el \in {"a", "b"} : CompVec[e.formula][IF el = "a" THEN 1 ELSE 2] > 0}

AllEntries == [formula : EntryFormulas, epa : Energies, tag : Tags]

\* The collections the model starts from: set(entries) of at most MaxEntries
\* entries, the tags used in order (which object carries which tag is
\* immaterial).
EntrySets ==
    {S \in SUBSET AllEntries :
        /\ Cardinality(S) <= MaxEntries
        /\ \A e \in S : e.tag = 2 => [e EXCEPT !.tag = 1] \in S}

\* The program is single-threaded: a call is made when no call is running and
\* the caller has taken the result of the one before.
Ready == fbs.pc = "idle" /\ call.op = "none"

\* The caller takes the result of the completed call.
TakeResult ==
    /\ fbs.pc = "idle"
    /\ call.op # "none"
    /\ call' = CallNone
    /\ UNCHANGED <<bal, inter, entries, fbs, origin, data>>

\* GibbsEntrySet.chemsys (lines 385-394)
ChemsysOfOneMember(S) == IF S = {} THEN {} ELSE elements(CHOOSE e \in S : TRUE)

chemsys(S) == UNION {elements(e) : e \in S}

\* The lists the constructor is given: up to MaxEntries entries, repeats
\* allowed.
EntryLists ==
    {l \in UNION {[1..n -> AllEntries] : n \in 0..MaxEntries} :
        Range(l) \in EntrySets}

\* __init__ (line 43): self.entries = set(entries)
GibbsEntrySet_init(entries_list) == Range(entries_list)

\* add (lines 54-60): self.entries.add(element)
add(S, element) == S \cup {element}

\* discard (lines 62-68): self.entries.discard(element)
discard(S, element) == S \ {element}

\* add and discard, followed by a reading of chemsys; was_member tells whether
\* the element was in the collection before.  Only collections of EntrySets are
\* visited: the others differ from one of them by the tags alone.
Add ==
    /\ Ready
    /\ \E element \in AllEntries :
         /\ add(entries, element) \in EntrySets
         /\ entries' = add(entries, element)
         /\ call' = [op |-> "add", element |-> element,
                     was_member |-> element \in entries,
                     chemsys |-> chemsys(entries')]
    /\ origin' = OriginGiven
    /\ data' = data_of_members(data, entries')
    /\ UNCHANGED <<bal, inter, fbs>>

Discard ==
    /\ Ready
    /\ \E element \in AllEntries :
         /\ discard(entries, element) \in EntrySets
         /\ entries' = discard(entries, element)
         /\ call' = [op |-> "discard", element |-> element,
                     was_member |-> element \in entries,
                     chemsys |-> chemsys(entries')]
    /\ origin' = OriginGiven
    /\ data' = data_of_members(data, entries')
    /\ UNCHANGED <<bal, inter, fbs>>

\* Line 86: the requested system is not within the collection's.
NoSubsetCheck(chem_sys, S) == FALSE

not_a_subset(chem_sys, S) == ~(chem_sys \subseteq chemsys(S))

\* Line 91: chem_sys.issuperset(elements)
SharesAnElement(chem_sys, e) == chem_sys \cap elements(e) # {}

in_chemsys(chem_sys, e) == elements(e) \subseteq chem_sys

\* get_subset_in_chemsys (lines 70-94), called on the collection S; the record
\* keeps the collection and the argument beside the outcome.
get_subset_in_chemsys(S, chem_sys) ==
    IF not_a_subset(chem_sys, S)
    THEN [op |-> "get_subset_in_chemsys", self_entries |-> S,
          chemsys |-> chem_sys, raised |-> "ValueError", ret |-> None]
    ELSE [op |-> "get_subset_in_chemsys", self_entries |-> S,
          chemsys |-> chem_sys, raised |-> "none",
          ret |-> Some({e \in S : in_chemsys(chem_sys, e)})]

GetSubsetInChemsys ==
    /\ Ready
    /\ \E chem_sys \in SUBSET Symbols :
         call' = get_subset_in_chemsys(entries, chem_sys)
    /\ UNCHANGED <<bal, inter, entries, fbs, origin, data>>

\* The cutoffs e_above_hull and the values of include_polymorphs.
Cutoffs == {0, 1}

\* An entry's atomic fraction of element b, in sixths.
Frac6(e) ==
    (6 * CompVec[e.formula][2]) \div (CompVec[e.formula][1] + CompVec[e.formula][2])

\* The rational p is at most the rational q.
RatLeq(p, q) == p[1] * q[2] <= q[1] * p[2]

\* PhaseDiagram over pd_entries: the energy per atom of the convex hull at the
\* composition of entry e, the least of the energies of the entries at that
\* composition and of the tie-lines between entries on either side of it.
hull_energy_per_atom(pd_entries, e) ==
    LET x == Frac6(e)
        at == {<<p.epa, 1>> : p \in {p \in pd_entries : Frac6(p) = x}}
        ties == {<<pq[1].epa * (Frac6(pq[2]) - x) + pq[2].epa * (x - Frac6(pq[1])),
                  Frac6(pq[2]) - Frac6(pq[1])>> :
                    pq \in {pq \in pd_entries \X pd_entries :
                                Frac6(pq[1]) < x /\ x < Frac6(pq[2])}}
    IN  CHOOSE h \in at \cup ties : \A g \in at \cup ties : RatLeq(h, g)

\* pd.get_e_above_hull(entry), a rational.
get_e_above_hull(pd_entries, e) ==
    LET h == hull_energy_per_atom(pd_entries, e)
    IN  <<e.epa * h[2] - h[1], h[2]>>

\* PhaseDiagram needs a reference entry for every element of its system.
has_el_refs(S) ==
    \A el \in chemsys(S) : \E e \in S : elements(e) = {el}

\* expand_pd(self.entries): one phase diagram per combination of the elements
\* of the collection, named by its elements.
expand_pd(S) == SUBSET chemsys(S) \ {{}}

\* pd.all_entries of the phase diagram of system sys.
all_entries(S, sys) == {e \in S : elements(e) \subseteq sys}

\* Line 122: the entry is above the cutoff.
NotAboveCutoff(pd_entries, e, cutoff) ==
    LET above == get_e_above_hull(pd_entries, e)
    IN  above[1] <= cutoff * above[2]

BelowCutoff(pd_entries, e, cutoff) ==
    LET above == get_e_above_hull(pd_entries, e)
    IN  above[1] < cutoff * above[2]

above_cutoff(pd_entries, e, cutoff) ==
    LET above == get_e_above_hull(pd_entries, e)
    IN  above[1] > cutoff * above[2]

\* Line 128: the entry recorded for the formula has the lower energy per atom.
RecordedIsHigher(recorded, entry) == recorded.epa > entry.epa

recorded_is_lower(recorded, entry) == recorded.epa < entry.epa

\* Line 132: all_comps[formula] = entry
RecordFirstOnly(all_comps, formula, entry) ==
    IF formula \in DOMAIN all_comps THEN all_comps
    ELSE [g \in DOMAIN all_comps \cup {formula} |->
             IF g = formula THEN entry ELSE all_comps[g]]

record(all_comps, formula, entry) ==
    [g \in DOMAIN all_comps \cup {formula} |->
        IF g = formula THEN entry ELSE all_comps[g]]

\* Lines 120-133: the loop body for one entry of the phase diagram of sys.
visit(f, S, sys, entry) ==
    IF entry \in f.filtered_entries
         \/ above_cutoff(all_entries(S, sys), entry, f.e_above_hull)
    THEN f
    ELSE LET formula == entry.formula
             kept == [f EXCEPT !.all_comps = record(@, formula, entry),
                               !.filtered_entries = @ \cup {entry}]
         IN  IF ~f.include_polymorphs /\ formula \in DOMAIN f.all_comps
             THEN IF recorded_is_lower(f.all_comps[formula], entry)
                  THEN f
                  ELSE IF f.all_comps[formula] \notin f.filtered_entries
                  THEN [f EXCEPT !.pc = "raised", !.raised = "KeyError"]
                  ELSE [kept EXCEPT !.filtered_entries =
                            (f.filtered_entries \ {f.all_comps[formula]}) \cup {entry}]
             ELSE kept

\* Lines 113-116: the call and its locals.
FilterByStability ==
    /\ Ready
    /\ has_el_refs(entries)
    /\ \E cutoff \in Cutoffs, include_polymorphs \in BOOLEAN :
         fbs' = [pc |-> "loop", e_above_hull |-> cutoff,
                 include_polymorphs |-> include_polymorphs,
                 pd_left |-> expand_pd(entries), sys |-> {}, todo |-> {},
                 filtered_entries |-> {}, all_comps |-> << >>,
                 raised |-> "none"]
    /\ call' = CallNone
    /\ UNCHANGED <<bal, inter, entries, origin, data>>

\* Line 118: the next phase diagram of pd_dict.
FilterNextPd ==
    /\ fbs.pc = "loop"
    /\ fbs.todo = {}
    /\ \E sys \in fbs.pd_left :
         fbs' = [fbs EXCEPT !.pd_left = @ \ {sys}, !.sys = sys,
                            !.todo = all_entries(entries, sys)]
    /\ UNCHANGED <<bal, inter, entries, call, origin, data>>

\* Line 119: the next entry of pd.all_entries.
FilterVisit ==
    /\ fbs.pc = "loop"
    /\ \E entry \in fbs.todo :
         fbs' = visit([fbs EXCEPT !.todo = @ \ {entry}], entries, fbs.sys, entry)
    /\ UNCHANGED <<bal, inter, entries, call, origin, data>>

\* Line 135: the new collection is returned (or the exception of line 130
\* leaves the call).
FilterReturn ==
    /\ \/ fbs.pc = "loop" /\ fbs.todo = {} /\ fbs.pd_left = {}
       \/ fbs.pc = "raised"
    /\ call' = [op |-> "filter_by_stability", self_entries |-> entries,
                e_above_hull |-> fbs.e_above_hull,
                include_polymorphs |-> fbs.include_polymorphs,
                raised |-> fbs.raised,
                ret |-> IF fbs.raised = "none" THEN Some(fbs.filtered_entries)
                        ELSE None]
    /\ fbs' = FbsIdle
    /\ UNCHANGED <<bal, inter, entries, origin, data>>

\* The formulas asked for, as amounts of the elements a and b; some are not
\* reduced, some are the formula of no entry.
RequestFormulas ==
    {<<1, 0>>, <<0, 1>>, <<1, 1>>, <<2, 0>>, <<2, 2>>, <<2, 1>>, <<1, 2>>}

RECURSIVE GCD(_, _)
GCD(m, n) == IF n = 0 THEN m ELSE GCD(n, m % n)

\* Composition(formula).reduced_composition
reduced_composition(formula) ==
    LET g == GCD(formula[1], formula[2])
    IN  <<formula[1] \div g, formula[2] \div g>>

\* comp.reduced_formula, the name of the reduced composition.
reduced_formula(formula) ==
    CHOOSE f \in DOMAIN CompVec : CompVec[f] = reduced_composition(formula)

\* comp.num_atoms
num_atoms(comp) == comp[1] + comp[2]

\* [str(e) for e in comp.elements]
comp_elements(comp) ==
    {el \in {"a", "b"} : comp[IF el = "a" THEN 1 ELSE 2] > 0}

\* Lines 163-165: the members whose reduced composition is the formula's.
possible_entries(S, formula) ==
    {x \in S : CompVec[x.formula] = reduced_composition(formula)}

\* get_min_entry_by_formula (lines 152-166): the outcomes of the call.  sorted()
\* puts an entry of least energy per atom first (any of them, the set has no
\* order); [0] of an empty list raises IndexError.
get_min_entry_by_formula(S, formula) ==
    LET possible == possible_entries(S, formula)
        first == {x \in possible : \A y \in possible : x.epa <= y.epa}
    IN  IF possible = {}
        THEN {[op |-> "get_min_entry_by_formula", self_entries |-> S,
               formula |-> formula, raised |-> "IndexError", ret |-> None]}
        ELSE {[op |-> "get_min_entry_by_formula", self_entries |-> S,
               formula |-> formula, raised |-> "none", ret |-> Some(x)] :
                    x \in first}

GetMinEntryByFormula ==
    /\ Ready
    /\ \E formula \in RequestFormulas :
         call' \in get_min_entry_by_formula(entries, formula)
    /\ UNCHANGED <<bal, inter, entries, fbs, origin, data>>

\* The default tol of stabilize_entry and get_interpolated_entry (1e-6).
EntryTol == <<1, 1000000>>

\* The tolerances the calls are made with: the default, the 1e-3 of
\* initialize_entry, and 1.
EntryTols == {EntryTol, <<1, 1000>>, <<1, 1>>}

\* PhaseDiagram(pd_entries) can be built and asked about the composition.
pd_covers(pd_entries, comp) ==
    /\ pd_entries # {}
    /\ has_el_refs(pd_entries)
    /\ comp_elements(comp) \subseteq chemsys(pd_entries)

\* pd.get_hull_energy(comp): the hull energy of the whole composition, a
\* rational.
get_hull_energy(pd_entries, comp) ==
    LET h == hull_energy_per_atom(pd_entries, [formula |-> reduced_formula(comp)])
    IN  <<h[1] * num_atoms(comp), h[2]>>

\* Line 232: get_hull_energy(comp) + tol
NoTolAdded(hull_energy, tol) == hull_energy

plus_tol(hull_energy, tol) ==
    <<hull_energy[1] * tol[2] + tol[1] * hull_energy[2], hull_energy[2] * tol[2]>>

\* get_interpolated_entry (lines 219-234)
get_interpolated_entry(S, formula, tol) ==
    LET comp == reduced_composition(formula)
        sub == get_subset_in_chemsys(S, comp_elements(comp))
        failed(exc) == [op |-> "get_interpolated_entry", self_entries |-> S,
                        formula |-> formula, tol |-> tol, raised |-> exc,
                        ret |-> None]
    IN  IF sub.raised # "none" THEN failed(sub.raised)
        ELSE IF ~pd_covers(sub.ret[1], comp) THEN failed("PhaseDiagramError")
        ELSE [op |-> "get_interpolated_entry", self_entries |-> S,
              formula |-> formula, tol |-> tol, raised |-> "none",
              ret |-> Some([composition |-> comp,
                            energy |-> plus_tol(get_hull_energy(sub.ret[1], comp), tol),
                            entry_id |-> "(Interpolated Entry)"])]

GetInterpolatedEntry ==
    /\ Ready
    /\ \E formula \in RequestFormulas, tol \in EntryTols :
         call' = get_interpolated_entry(entries, formula, tol)
    /\ UNCHANGED <<bal, inter, entries, fbs, origin, data>>

\* Line 185: -1 * pd.get_e_above_hull(entry) * entry.composition.num_atoms - tol
EAdjPerAtom(e_above_hull, n, tol) ==
    <<-(e_above_hull[1] * tol[2] + tol[1] * e_above_hull[2]),
      e_above_hull[2] * tol[2]>>

e_adj(e_above_hull, n, tol) ==
    <<-(e_above_hull[1] * n * tol[2] + tol[1] * e_above_hull[2]),
      e_above_hull[2] * tol[2]>>

\* stabilize_entry (lines 168-200).  The returned entry is the argument itself
\* (same_object) or a new entry decoded from its dict with one more energy
\* adjustment.
stabilize_entry(S, entry, tol) ==
    LET comp == CompVec[entry.formula]
        sub == get_subset_in_chemsys(S, elements(entry))
        failed(exc) == [op |-> "stabilize_entry", self_entries |-> S,
                        entry |-> entry, tol |-> tol, raised |-> exc,
                        ret |-> None]
    IN  IF sub.raised # "none" THEN failed(sub.raised)
        ELSE IF ~pd_covers(sub.ret[1], comp) THEN failed("PhaseDiagramError")
        ELSE LET e_above_hull == get_e_above_hull(sub.ret[1], entry)
             IN  [op |-> "stabilize_entry", self_entries |-> S,
                  entry |-> entry, tol |-> tol, raised |-> "none",
                  ret |-> Some(
                     IF e_above_hull[1] = 0
                     THEN [entry |-> entry, energy_adjustments |-> << >>,
                           same_object |-> TRUE]
                     ELSE [entry |-> entry,
                           energy_adjustments |->
                               <<e_adj(e_above_hull, num_atoms(comp), tol)>>,
                           same_object |-> FALSE])]

StabilizeEntry ==
    /\ Ready
    /\ \E entry \in entries, tol \in EntryTols :
         call' = stabilize_entry(entries, entry, tol)
    /\ UNCHANGED <<bal, inter, entries, fbs, origin, data>>

\* utils.py line 78: the exception the try block handles.
handled(exc) == exc = "KeyError"

\* initialize_entry (utils.py lines 65-87): the outcomes of the call.
\* GibbsEntrySet has no get_stabilized_entry, so line 85 raises AttributeError.
initialize_entry(S, formula, stabilize) ==
    {LET fallback == get_interpolated_entry(S, formula, EntryTol)
         raised == IF found.raised = "none" THEN "none"
                   ELSE IF handled(found.raised) THEN fallback.raised
                   ELSE found.raised
         entry == IF found.raised = "none" THEN found.ret
                  ELSE IF handled(found.raised) THEN fallback.ret
                  ELSE None
     IN  [op |-> "initialize_entry", self_entries |-> S, formula |-> formula,
          stabilize |-> stabilize,
          interpolated |-> found.raised # "none" /\ handled(found.raised)
                             /\ fallback.raised = "none",
          raised |-> IF raised = "none" /\ stabilize THEN "AttributeError"
                     ELSE raised,
          ret |-> IF raised = "none" /\ stabilize THEN None ELSE entry] :
        found \in get_min_entry_by_formula(S, formula)}

InitializeEntry ==
    /\ Ready
    /\ \E formula \in RequestFormulas, stabilize \in BOOLEAN :
         call' \in initialize_entry(entries, formula, stabilize)
    /\ UNCHANGED <<bal, inter, entries, fbs, origin, data>>

\* entry_set = entry_set.filter_by_stability(...) (utils.py): the collection the
\* last filter returned becomes the collection under test.
AdoptFiltered ==
    /\ fbs.pc = "idle"
    /\ call.op = "filter_by_stability"
    /\ call.raised = "none"
    /\ entries' = call.ret[1]
    /\ origin' = [op |-> "filter_by_stability",
                  e_above_hull |-> call.e_above_hull,
                  include_polymorphs |-> call.include_polymorphs]
    /\ call' = CallNone
    /\ data' = data_of_members(data, entries')
    /\ UNCHANGED <<bal, inter, fbs>>

InitEntries ==
    /\ bal = BalIdle
    /\ inter = InterIdle
    /\ \E entries_list \in EntryLists :
         /\ entries = GibbsEntrySet_init(entries_list)
         /\ call = [op |-> "__init__", entries_list |-> entries_list,
                    chemsys |-> chemsys(entries)]
    /\ fbs = FbsIdle
    /\ origin = OriginGiven
    /\ data = data_of_members(<< >>, entries)

NextEntries ==
    \/ GetSubsetInChemsys
    \/ FilterByStability
    \/ FilterNextPd
    \/ FilterVisit
    \/ FilterReturn
    \/ AdoptFiltered
    \/ GetMinEntryByFormula
    \/ GetInterpolatedEntry
    \/ InitializeEntry
    \/ StabilizeEntry
    \/ Add
    \/ Discard
    \/ TakeResult

SpecEntries == InitEntries /\ [][NextEntries]_vars

\* The last call was get_subset_in_chemsys.
SubsetCalled == call.op = "get_subset_in_chemsys"

\* C8: for any entry collection and any requested element set that is a subset
\* of the collection's chemsys, get_subset_in_chemsys returns exactly the
\* members whose element set is a subset of the requested elements.
C8_SubsetIsExact ==
    (SubsetCalled /\ call.chemsys \subseteq chemsys(call.self_entries))
    => (/\ call.raised = "none"
        /\ call.ret # None
        /\ \A e \in AllEntries :
             e \in call.ret[1]
                <=> (e \in call.self_entries /\ elements(e) \subseteq call.chemsys))

\* C8's case: a request that keeps some members and drops others.
C8_Witness ==
    /\ SubsetCalled
    /\ call.raised = "none"
    /\ call.ret[1] # {}
    /\ call.ret[1] # call.self_entries

\* C9: whenever the requested elements contain an element outside the
\* collection's chemsys, get_subset_in_chemsys fails with ValueError, returns
\* no collection, and leaves the collection's members unchanged.
C9_NonSubsetRaises ==
    [][(/\ call'.op = "get_subset_in_chemsys"
        /\ ~(call'.chemsys \subseteq chemsys(entries)))
        => (/\ call'.raised = "ValueError"
            /\ call'.ret = None
            /\ call'.self_entries = entries
            /\ entries' = entries)]_vars

\* C9's case: a request outside a non-empty collection's chemsys was refused.
C9_Witness ==
    /\ SubsetCalled
    /\ call.raised = "ValueError"
    /\ entries # {}
    /\ call.chemsys \cap chemsys(entries) # {}

\* e's energy above hull is at most cutoff in every phase diagram of
\* expand_pd(S) that holds e, and is 0 in them when the cutoff is 0.
WithinCutoff(S, e, cutoff) ==
    \A sys \in expand_pd(S) :
        e \in all_entries(S, sys)
        => LET above == get_e_above_hull(all_entries(S, sys), e)
           IN  /\ above[1] <= cutoff * above[2]
               /\ cutoff = 0 => above[1] = 0

\* C10: every entry filter_by_stability(e_above_hull = c) returns has energy
\* above hull <= c in its subsystem's phase diagram (0 when c = 0), and no
\* entry above the cutoff is retained at any point of the loop, for either
\* value of include_polymorphs.
C10_FilteredWithinCutoff ==
    /\ (call.op = "filter_by_stability" /\ call.raised = "none")
        => \A e \in call.ret[1] :
             e \in call.self_entries
             /\ WithinCutoff(call.self_entries, e, call.e_above_hull)
    /\ fbs.pc = "loop"
        => \A e \in fbs.filtered_entries :
             WithinCutoff(entries, e, fbs.e_above_hull)

\* C10's case: the filter dropped an entry above the cutoff and kept one that
\* is above the hull but within the cutoff.
C10_Witness ==
    /\ call.op = "filter_by_stability"
    /\ call.raised = "none"
    /\ call.self_entries \ call.ret[1] # {}
    /\ \E e \in call.ret[1] :
         get_e_above_hull(call.self_entries, e)[1] > 0

\* The last call was filter_by_stability and it returned a collection.
FilterReturned == call.op = "filter_by_stability" /\ call.raised = "none"

\* The members of S with the formula that pass the cutoff in the phase diagram
\* of the whole collection.
Passing(S, formula, cutoff) ==
    {e \in S : /\ e.formula = formula
               /\ LET above == get_e_above_hull(S, e)
                  IN  above[1] <= cutoff * above[2]}

\* C11: with include_polymorphs = False the returned collection holds at most
\* one entry per reduced formula, and that entry has the lowest energy per atom
\* among the entries of the formula that pass the cutoff (one is returned
\* whenever one passes), whatever the order of subsystems and entries.
C11_OneLowestPerFormula ==
    (FilterReturned /\ ~call.include_polymorphs)
    => \A formula \in EntryFormulas :
         LET kept == {e \in call.ret[1] : e.formula = formula}
             passing == Passing(call.self_entries, formula, call.e_above_hull)
         IN  /\ Cardinality(kept) <= 1
             /\ kept \subseteq passing
             /\ passing # {} => kept # {}
             /\ \A e \in kept : \A p \in passing : e.epa <= p.epa

\* C11's case: two polymorphs of different energy both pass the cutoff, in a
\* collection with overlapping subsystems, and only the lower one is returned.
C11_Witness ==
    /\ FilterReturned
    /\ ~call.include_polymorphs
    /\ Cardinality(chemsys(call.self_entries)) = 2
    /\ \E formula \in EntryFormulas :
         \E p, q \in Passing(call.self_entries, formula, call.e_above_hull) :
            /\ p.epa < q.epa
            /\ p \in call.ret[1]
            /\ q \notin call.ret[1]

\* The collection under test is itself what filter_by_stability returned for
\* the cutoff 0, and it has been filtered again with the same arguments.
Refiltered ==
    /\ FilterReturned
    /\ origin.op = "filter_by_stability"
    /\ origin.e_above_hull = 0
    /\ call.e_above_hull = 0
    /\ call.include_polymorphs = origin.include_polymorphs

\* C12: filtering a collection that filter_by_stability(e_above_hull = 0)
\* returned, again with the same cutoff and the same include_polymorphs, returns
\* exactly the same members.
C12_FilterIdempotent ==
    Refiltered => (call.ret[1] = call.self_entries /\ call.self_entries = entries)

\* C12's case: a filtered collection over two elements that holds a compound
\* has been filtered again.
C12_Witness ==
    /\ Refiltered
    /\ call.ret[1] # {}
    /\ Cardinality(chemsys(entries)) = 2
    /\ \E e \in entries : e.formula = "AB"

\* The last call was get_min_entry_by_formula.
GetMinCalled == call.op = "get_min_entry_by_formula"

\* C13: get_min_entry_by_formula returns a member whose reduced composition is
\* the formula's and whose energy per atom is least among such members; if no
\* member matches it fails with the not-found condition that initialize_entry
\* handles (KeyError), and the collection is unchanged.
C13_MinOrNotFound ==
    GetMinCalled
    => /\ call.self_entries = entries
       /\ LET matching == {x \in entries :
                              CompVec[x.formula] = reduced_composition(call.formula)}
          IN  IF matching # {}
              THEN /\ call.raised = "none"
                   /\ call.ret[1] \in matching
                   /\ \A y \in matching : call.ret[1].epa <= y.epa
              ELSE /\ call.raised = "KeyError"
                   /\ call.ret = None

\* What get_min_entry_by_formula does: the lowest matching member when there
\* is one, IndexError when there is none.
GetMinRaisesIndexError ==
    GetMinCalled
    => LET matching == {x \in entries :
                           CompVec[x.formula] = reduced_composition(call.formula)}
       IN  IF matching # {}
           THEN /\ call.raised = "none"
                /\ call.ret[1] \in matching
                /\ \A y \in matching : call.ret[1].epa <= y.epa
           ELSE call.raised = "IndexError" /\ call.ret = None

\* The last call was initialize_entry for a formula no member has.
InitializedAbsent ==
    /\ call.op = "initialize_entry"
    /\ \A x \in call.self_entries :
          CompVec[x.formula] # reduced_composition(call.formula)

\* The interpolation of the formula would succeed on the collection.
CanInterpolate ==
    get_interpolated_entry(call.self_entries, call.formula, EntryTol).raised = "none"

\* C14: when the requested formula is absent from the collection,
\* initialize_entry falls back to get_interpolated_entry and returns the
\* interpolated entry; a failure propagates only if the interpolation fails.
C14_AbsentFallsBack ==
    (InitializedAbsent /\ ~call.stabilize /\ CanInterpolate)
    => /\ call.raised = "none"
       /\ call.interpolated
       /\ call.ret = get_interpolated_entry(call.self_entries, call.formula,
                                            EntryTol).ret

\* What initialize_entry does for an absent formula: the IndexError of
\* get_min_entry_by_formula leaves the call, nothing is interpolated.
AbsentRaisesIndexError ==
    InitializedAbsent
    => (call.raised = "IndexError" /\ ~call.interpolated /\ call.ret = None)

\* The difference p - q of two rationals.
RatMinus(p, q) == <<p[1] * q[2] - q[1] * p[2], p[2] * q[2]>>

\* A rational in lowest terms.
RatNorm(p) ==
    LET g == GCD(Abs(p[1]), p[2])
    IN  <<p[1] \div g, p[2] \div g>>

\* The phase diagram an entry of the given composition is judged in: the
\* members of S within the composition's elements.
PdOf(S, comp) == {e \in S : elements(e) \subseteq comp_elements(comp)}

\* The energy (of the whole composition) of the entry stabilize_entry returned:
\* the entry's energy and its adjustments.
StabilizedEnergy(r) ==
    LET n == num_atoms(CompVec[r.entry.formula])
    IN  IF r.energy_adjustments = << >> THEN <<r.entry.epa * n, 1>>
        ELSE <<r.entry.epa * n * r.energy_adjustments[1][2]
                  + r.energy_adjustments[1][1],
               r.energy_adjustments[1][2]>>

\* The last call was stabilize_entry and it returned an entry.
Stabilized == call.op = "stabilize_entry" /\ call.raised = "none"

\* C15: stabilize_entry returns the same entry unchanged when its energy above
\* hull is 0; otherwise the returned entry carries one more energy adjustment,
\* its energy is exactly tol below the hull energy at its composition, and so it
\* is not above the hull once the hull is rebuilt; the original entry and the
\* collection are not modified.
C15_StabilizedJustBelowHull ==
    Stabilized
    => LET r == call.ret[1]
           comp == CompVec[call.entry.formula]
           pd_entries == PdOf(entries, comp)
           hull == get_hull_energy(pd_entries, comp)
       IN  /\ call.self_entries = entries
           /\ call.entry \in entries
           /\ r.entry = call.entry
           /\ IF get_e_above_hull(pd_entries, call.entry)[1] = 0
              THEN r.same_object /\ r.energy_adjustments = << >>
              ELSE /\ ~r.same_object
                   /\ Len(r.energy_adjustments) = 1
                   /\ RatNorm(RatMinus(hull, StabilizedEnergy(r)))
                          = RatNorm(call.tol)
                   /\ RatLeq(StabilizedEnergy(r), hull)

\* C15's case: a compound above the hull was stabilized.
C15_Witness ==
    /\ Stabilized
    /\ ~call.ret[1].same_object
    /\ call.entry.formula = "AB"
    /\ call.tol = EntryTol

\* The last call was get_interpolated_entry and it returned an entry.
Interpolated == call.op = "get_interpolated_entry" /\ call.raised = "none"

\* C16: the entry get_interpolated_entry synthesizes has the formula's reduced
\* composition and an energy equal to the hull energy at that composition plus
\* tol, so for every positive tol it is strictly above the hull.
C16_InterpolatedAboveHull ==
    Interpolated
    => LET r == call.ret[1]
           g == GCD(call.formula[1], call.formula[2])
           hull == get_hull_energy(PdOf(entries, r.composition), r.composition)
       IN  /\ call.self_entries = entries
           /\ r.composition[1] * g = call.formula[1]
           /\ r.composition[2] * g = call.formula[2]
           /\ GCD(r.composition[1], r.composition[2]) = 1
           /\ RatNorm(RatMinus(r.energy, hull)) = RatNorm(call.tol)
           /\ ~RatLeq(r.energy, hull)

\* C16's case: an entry was interpolated between other entries for an unreduced
\* formula no member has.
C16_Witness ==
    /\ Interpolated
    /\ call.formula = <<2, 2>>
    /\ \A x \in entries : x.formula # "AB"
    /\ call.tol = EntryTol

\* Reaction r has a non-precursor reactant that is a non-precursor product of q.
DependsOn(r, q, precursors) ==
    (r.reactants \ precursors) \cap (q.products \ precursors) # {}

\* S has at least two reactions, none with all its reactants among the
\* precursors, and each depends on another reaction of S.
FullyCrossFed(S, precursors) ==
    /\ Cardinality(S) >= 2
    /\ \A r \in S : ~(r.reactants \subseteq precursors)
    /\ \A r \in S : \E q \in S \ {r} : DependsOn(r, q, precursors)

\* As FullyCrossFed, an overlap counting only when some overlapping composition
\* belongs to no reaction of the pathway outside S.
ExclusivelyCrossFed(S, rxns, precursors) ==
    /\ Cardinality(S) >= 2
    /\ \A r \in S : ~(r.reactants \subseteq precursors)
    /\ \A r \in S : \E q \in S \ {r} :
          ((r.reactants \ precursors) \cap (q.products \ precursors))
             \ UNION {compositions(o) : o \in rxns \ S} # {}

\* C17: a reaction of a candidate subset is marked dependent only through an
\* overlapping composition that appears in no reaction outside the subset, so
\* the pathway is reported interdependent only if some subset is cross-fed
\* through intermediates the reactions outside it do not use.
C17_IntermediatesExclusive ==
    (InterDone /\ inter.out.interdependent)
    => \E S \in SUBSET inter.rxns :
          ExclusivelyCrossFed(S, inter.rxns, inter.precursors)

\* What the code reports instead: the test against the outside compositions
\* never fails, a cross-fed subset is interdependent whatever the reactions
\* outside it use.
OutsideUseIgnored ==
    (InterDone /\ Cardinality(inter.rxns) > 1)
    => (inter.out.interdependent
          <=> \E S \in SUBSET inter.rxns : FullyCrossFed(S, inter.precursors))

\* The combos of the finished run, in the order they were inspected.
InspectedCombos == limited_powerset(inter.order, Cardinality(inter.rxns))

\* The positions of the inspected combos that are cross-fed.
QualifyingAt ==
    {k \in 1..Len(InspectedCombos) :
        FullyCrossFed(Range(InspectedCombos[k]), inter.precursors)}

\* The combined reaction of the k-th inspected combo can be balanced.
BalancesAt(k) ==
    can_balance(NetReactants(Range(InspectedCombos[k])),
                NetProducts(Range(InspectedCombos[k])))

\* The returned combined reaction is the balanced one of the k-th combo.
ReturnedCombinedOf(k) ==
    /\ inter.out.combined_rxn # None
    /\ inter.out.combined_rxn[1].balanced
    /\ inter.out.combined_rxn[1].reactants = NetReactants(Range(InspectedCombos[k]))
    /\ inter.out.combined_rxn[1].products = NetProducts(Range(InspectedCombos[k]))

Last(K) == CHOOSE k \in K : \A j \in K : j <= k

\* Several subsets of the finished run qualify as interdependent.
SeveralQualify ==
    InterDone /\ ~inter.out.raised /\ Cardinality(QualifyingAt) >= 2

\* C18 (as claimed): when several subsets qualify, the combined reaction
\* returned is the outcome of the last qualifying subset inspected: its
\* balanced combined reaction, or none when that one does not balance.
C18_LastQualifyingReturned ==
    SeveralQualify
    => IF BalancesAt(Last(QualifyingAt))
       THEN ReturnedCombinedOf(Last(QualifyingAt))
       ELSE inter.out.combined_rxn = None

\* C18 (amended): when several subsets qualify, the combined reaction returned
\* is that of the last qualifying subset inspected whose combined reaction
\* balanced, and none only when no qualifying subset's reaction balanced.
C18_LastBalancedReturned ==
    SeveralQualify
    => LET balanced == {k \in QualifyingAt : BalancesAt(k)}
       IN  IF balanced # {}
           THEN ReturnedCombinedOf(Last(balanced))
           ELSE inter.out.combined_rxn = None

\* C18's case: two qualifying subsets balance to different reactions, and the
\* last qualifying subset inspected does not balance.
C18_Witness ==
    /\ SeveralQualify
    /\ ~BalancesAt(Last(QualifyingAt))
    /\ \E j, k \in QualifyingAt :
         /\ j < k
         /\ BalancesAt(j)
         /\ BalancesAt(k)
         /\ NetReactants(Range(InspectedCombos[j]))
               # NetReactants(Range(InspectedCombos[k]))
         /\ ReturnedCombinedOf(k)

\* C19: interdependent = True is reported only if some subset of at least two
\* distinct reactions, none with all its reactants among the precursors, has
\* every member consuming a non-precursor product of another member.
C19_TrueOnlyIfCrossFed ==
    (InterDone /\ inter.out.interdependent)
    => \E S \in SUBSET inter.rxns : FullyCrossFed(S, inter.precursors)

\* C19's case: a cross-fed pair reported in a pathway whose third reaction
\* starts from the precursors alone.
C19_Witness ==
    /\ InterDone
    /\ inter.out.interdependent
    /\ Cardinality(inter.rxns) = 3
    /\ \E r \in inter.rxns : r.reactants \subseteq inter.precursors
    /\ inter.precursors # {}

\* The last operation was the construction, an add or a discard, and chemsys
\* was read after it.
MembersChanged == call.op \in {"__init__", "add", "discard"}

\* C20: after construction from any list (repeats included) and any sequence of
\* add and discard operations, chemsys is the union of the element symbols of
\* the current members: every member's elements are within it, and an element
\* leaves it once the last member containing it is discarded.
C20_ChemsysIsUnionOfMembers ==
    MembersChanged
    => /\ \A el \in Symbols :
            el \in call.chemsys <=> \E e \in entries : el \in elements(e)
       /\ \A e \in entries : elements(e) \subseteq call.chemsys
       /\ call.op = "__init__"
            => \A e \in AllEntries :
                  e \in entries <=> \E i \in 1..Len(call.entries_list) :
                                        call.entries_list[i] = e
       /\ call.op = "add" => call.element \in entries
       /\ call.op = "discard"
            => /\ call.element \notin entries
               /\ \A el \in elements(call.element) :
                     (\A e \in entries : el \notin elements(e))
                        => el \notin call.chemsys

\* C20's case: the last member containing an element was discarded from a
\* collection that keeps other members.
C20_Witness ==
    /\ call.op = "discard"
    /\ call.was_member
    /\ ~(elements(call.element) \subseteq call.chemsys)
    /\ call.chemsys # {}
    /\ Cardinality(entries) >= 2

(***************************************************************************)
(*                       GibbsEntrySet: the indices                        *)
(***************************************************************************)

\* The order of the reduced formulas as Python compares the strings.
FormulaRank == [f \in EntryFormulas |->
                   IF f = "A" THEN 1 ELSE IF f = "AB" THEN 2 ELSE 3]

\* entries_list (lines 380-383): the members sorted by reduced formula; members
\* of one formula stay in the order the set is iterated in, which is any.
entries_list(S) ==
    {s \in IterationOrders(S) :
        \A i, j \in 1..Len(s) :
            i < j => FormulaRank[s[i].formula] <= FormulaRank[s[j].formula]}

\* build_indices (lines 137-150): e.data.update({"idx": idx}) for each member,
\* idx counted from 0.
build_indices(S, sorted_entries) ==
    [e \in S |-> (CHOOSE i \in 1..Len(sorted_entries) : sorted_entries[i] = e) - 1]

BuildIndices ==
    /\ Ready
    /\ \E sorted_entries \in entries_list(entries) :
         data' = build_indices(entries, sorted_entries)
    /\ call' = [op |-> "build_indices"]
    /\ UNCHANGED <<bal, inter, entries, fbs, origin>>

InitIndices == InitEntries

NextIndices ==
    \/ Add
    \/ Discard
    \/ BuildIndices
    \/ TakeResult

SpecIndices == InitIndices /\ [][NextIndices]_vars

\* Every member's idx is its position in entries_list.
IndexedInOrder ==
    \E s \in entries_list(entries) : \A i \in 1..Len(s) : data[s[i]] = i - 1

\* C21: build_indices is called whenever an entry is added or removed, so after
\* any sequence of add and discard operations every member's data["idx"] is its
\* position in entries_list, none stale, none missing.
C21_IndicesFollowMembers ==
    call.op \in {"add", "discard"} => IndexedInOrder

\* What the code does: build_indices indexes the members in order, and add and
\* discard leave the data of the members as it was.
IndicesOnlyWhenBuilt ==
    /\ call.op = "build_indices" => IndexedInOrder
    /\ call.op = "__init__" => \A e \in entries : data[e] = NoIdx

AddDiscardKeepData ==
    [][call'.op \in {"add", "discard"}
        => \A e \in entries' :
              data'[e] = IF e \in entries THEN data[e] ELSE NoIdx]_vars

\* A member of the current phase diagram that has been visited, passes the
\* cutoff and is not retained although the entry recorded for its formula has
\* the same energy: it was retained and then displaced by its equal.
DisplacedByEqual(q) ==
    /\ q \in all_entries(entries, fbs.sys) \ fbs.todo
    /\ q \notin fbs.filtered_entries
    /\ q \in Passing(entries, q.formula, fbs.e_above_hull)
    /\ q.formula \in DOMAIN fbs.all_comps
    /\ fbs.all_comps[q.formula].epa = q.epa

\* C22: filter_by_stability with include_polymorphs = False never fails while
\* displacing a polymorph: at every step of the loop the entry recorded for a
\* formula in all_comps is a member of filtered_entries, so the remove of line
\* 130 never raises, for every order of subsystems and entries.
C22_RecordedIsRetained ==
    /\ fbs.pc # "raised"
    /\ (fbs.pc = "loop" /\ ~fbs.include_polymorphs)
        => \A formula \in DOMAIN fbs.all_comps :
              /\ fbs.all_comps[formula].formula = formula
              /\ fbs.all_comps[formula] \in fbs.filtered_entries
    /\ call.op = "filter_by_stability" => call.raised = "none"

\* C22's case: in the second or a later subsystem of a two-element collection,
\* a polymorph has been displaced by one of equal energy per atom.
C22_Witness ==
    /\ fbs.pc = "loop"
    /\ ~fbs.include_polymorphs
    /\ Cardinality(chemsys(entries)) = 2
    /\ Cardinality(fbs.pd_left) <= 1
    /\ \E q \in entries : DisplacedByEqual(q)

\* C23: a combined reaction is never returned together with a False verdict:
\* a non-null combined reaction implies interdependent = True, and the
\* reaction returned is one whose balance succeeded.
C23_CombinedImpliesInterdependent ==
    (InterDone /\ inter.out.combined_rxn # None)
    => /\ ~inter.out.raised
       /\ inter.out.interdependent = TRUE
       /\ inter.out.combined_rxn[1].balanced
       /\ ~inter.out.combined_rxn[1].raised
       /\ can_balance(inter.out.combined_rxn[1].reactants,
                      inter.out.combined_rxn[1].products)

\* C23's case: a combined reaction is returned by a run in which the balance
\* of another qualifying subset returned an unbalanced reaction.
C23_Witness ==
    /\ InterDone
    /\ inter.out.combined_rxn # None
    /\ inter.mode = "unbalanced"
    /\ \E k \in QualifyingAt : ~BalancesAt(k)

\* Lists self.reactions may be for the set of reactions of the call: the
\* reactions in the order of the run, in the opposite order, and with one of
\* them listed a second time.
ReactionLists ==
    {inter.order, [i \in 1..Len(inter.order) |->
                      inter.order[Len(inter.order) + 1 - i]]}
        \cup {Append(inter.order, r) : r \in inter.rxns}

\* One iteration order of the set, the same for every run over it.
ReferenceOrder(rxns) == CHOOSE o \in IterationOrders(rxns) : TRUE

\* C24: the verdict is determined by the set of distinct reactions and the
\* precursor set: listing the reactions in another order or twice gives the
\* same set, and every run over it, whatever the iteration order and whatever
\* BasicReaction.balance does on failure, returns the interdependent flag of
\* the run in the reference order, so any two runs return the same flag.
C24_VerdictDeterministic ==
    InterDone
    => /\ \A reactions \in ReactionLists : rxns_of(reactions) = inter.rxns
       /\ LET other == contains_interdependent_rxns(inter.rxns,
                           inter.precursors, ReferenceOrder(inter.rxns), "raises")
          IN  /\ ~inter.out.raised
              /\ other.interdependent = inter.out.interdependent

\* C24's case: a run of three reactions reported interdependent through one
\* pair only, so that the order decides when the pair is inspected.
C24_Witness ==
    /\ InterDone
    /\ Cardinality(inter.rxns) = 3
    /\ inter.out.interdependent
    /\ Cardinality(QualifyingAt) = 1
    /\ inter.order # ReferenceOrder(inter.rxns)
    /\ inter.mode # "raises"

====
